---- MODULE Spec2Model ----
(***************************************************************************)
(* Model of the two pieces of control flow of the dev-portal handlers:     *)
(*                                                                         *)
(*   - the get_all page aggregation of the zone-and-port and voyage        *)
(*     handlers (getZoneAndPortTraffic and its seven copies, which differ  *)
(*     only in the upstream path and in the name of the merged array);     *)
(*   - handleAutoScreening, the submit / sleep / poll loop of the webhook  *)
(*     notification handler.                                               *)
(*                                                                         *)
(* Every await of the source is a step: the state between two steps is the *)
(* state of the suspended handler.  Times are milliseconds.                *)
(***************************************************************************)
EXTENDS Integers, Sequences, FiniteSets, TLC

(***************************************************************************)
(* Bounds of the model.                                                    *)
(***************************************************************************)
MaxCeiling == 4         \* MAX_RECORDS_LIMIT ranges over 1..MaxCeiling
MaxLimit == 3           \* meta.limit ranges over 0..MaxLimit (0: absent)
MaxPageLen == 2         \* an upstream page carries at most MaxPageLen items
MaxLatencySteps == 2    \* an upstream call takes 0..MaxLatencySteps steps of 2500 ms
MaxQueryOffset == 2     \* the offset of the client's query ranges over 0..MaxQueryOffset
MaxCallers == 2         \* callers of the reference-data cache in one process
MaxCalls == 2           \* calls each of them makes

Items == {"a", "b"}

(* A JavaScript value that is either undefined or an array. *)
Absent == [present |-> FALSE, items |-> <<>>]
Arr(s) == [present |-> TRUE, items |-> s]

SeqsUpTo(n) == UNION {[1..k -> Items] : k \in 0..n}

(* The values data[fieldName] of an upstream page can take. *)
PageArrays == {Absent} \cup {Arr(s) : s \in SeqsUpTo(MaxPageLen)}

(* The values meta.total_count of the first page can take (0: absent). *)
TotalCounts == 0..(MaxCeiling + 2)

(* HTTP status of a failed upstream call; 0: the failure carries no response. *)
ErrorStatuses == {0, 404, 503}

VARIABLES
    (* ---- aggregation handler ---- *)
    agg_pc,             \* "start", "loop" (an additional fetch is in flight), "done"
    MAX_RECORDS_LIMIT,  \* the configured ceiling
    getAll,             \* queryParams.get_all === 'true'
    initialPage,        \* the first page as the upstream served it
    responseData,       \* the handler's responseData (first page, annotated, merged into)
    remainingRequests,  \* totalRequests - 1
    i,                  \* loop index of the fetch in flight
    fetched,            \* offsets of the additional fetches issued so far
    served,             \* arrays the additional fetches returned so far
    response,           \* the APIGatewayProxyResult returned
    queryOffset,        \* the offset parameter of the client's query (0: none)
    upstreamError,      \* status of the upstream failure that ended the request (-1: none)
    (* ---- two successive requests against one page source ---- *)
    run,                \* 1 or 2: which of the two requests is being handled
    source,             \* what the upstream answered so far, by offset
    firstResponse,      \* the response of the first request
    (* ---- storeWebhookNotification ---- *)
    hook_pc,            \* "received", "screening", "storing" (put awaited), "done"
    wantsScreening,     \* custom_reference includes 'AUTO_SCREENING'
    imoPresent,         \* vessel_information.imo is present and non-empty
    autoScreening,      \* data.auto_screening
    puts,               \* data.auto_screening of every item handed to dynamodb.put
    stored,             \* the same, of every item the table holds
    hookResponse,       \* status code answered (0: none yet)
    (* ---- main handlers: routing and the access token ---- *)
    gate_pc,            \* "received", "handling" (endpoint handler running), "done"
    handlerKind,        \* "zone" (zone-and-port handler) or "voyage" (voyage handler)
    httpMethod,         \* event.httpMethod
    route,              \* which endpoint event.path matches, or "unknown"
    requestHeaders,     \* event.headers: Authorization, authorization, access-token
    idPresent,          \* the path parameter (id or imo) is present
    accessToken,        \* what extractAccessToken returned
    gateResponse,       \* status code answered by the main handler itself (0: none)
    (* ---- two invocations interleaved in one process ---- *)
    active,             \* 1 or 2: the invocation whose locals are the aggregation variables
    suspended,          \* the locals of the other invocation, suspended at an await
    (* ---- reference-data cache ---- *)
    recordsCache,       \* the module-level cache: "null" or the records loaded
    caller_pc,          \* per caller: "idle", "loading" (s3Client.send awaited)
    callsLeft,          \* per caller: calls it may still make
    lastResult,         \* per caller: how its last call ended
    loadsStarted,       \* GetObject commands sent
    loadsSucceeded,     \* loads that built the cache
    startedWhilePopulated, \* GetObject commands sent while the cache was populated
    everPopulated,      \* the cache has been populated at some time
    (* ---- screener ---- *)
    scr_pc,             \* "idle", "initialSleep", "polling", "sleeping", "returned", "thrown"
    pteResponse,        \* transaction_id of the submission's response
    timeoutMs,          \* the timeout the loop compares against (PTE_TIMEOUT in the source)
    pollIntervalMs,     \* the argument of the loop's sleep (5000 in the source)
    now,                \* Date.now()
    startTime,
    screeningComplete,
    screeningResult,
    submits,            \* number of axios.post calls issued
    polls,              \* number of getScreeningStatus calls issued
    pollStart,          \* now - startTime when the latest poll was issued
    pollLatency,        \* duration of the latest poll that returned
    lastResponse,       \* the latest poll response
    pending,            \* number of poll responses that did not complete the screening
    sleeps              \* the sleeps performed, in order

aggVars == <<agg_pc, MAX_RECORDS_LIMIT, getAll, initialPage, responseData,
             remainingRequests, i, fetched, served, response, queryOffset, upstreamError>>
twiceVars == <<run, source, firstResponse>>
hookVars == <<hook_pc, wantsScreening, imoPresent, autoScreening, puts, stored,
              hookResponse>>
scrVars == <<scr_pc, pteResponse, timeoutMs, pollIntervalMs, now, startTime, screeningComplete,
             screeningResult, submits, polls, pollStart, pollLatency, lastResponse,
             pending, sleeps>>
gateVars == <<gate_pc, handlerKind, httpMethod, route, requestHeaders, idPresent,
              accessToken, gateResponse>>
concVars == <<active, suspended>>
cacheVars == <<recordsCache, caller_pc, callsLeft, lastResult, loadsStarted,
               loadsSucceeded, startedWhilePopulated, everPopulated>>
vars == <<aggVars, twiceVars, hookVars, scrVars, gateVars, concVars, cacheVars>>

(***************************************************************************)
(* Aggregation: pure helpers.                                              *)
(***************************************************************************)

(* Math.ceil(a / b) for a >= 0, b > 0. *)
Ceil(a, b) == (a + b - 1) \div b

(* meta of a page: 0 stands for a falsy (absent or zero) field. *)
Meta(tc, lim, sc) ==
    [total_count |-> tc, limit |-> lim, offset |-> 0, status_code |-> sc]

Page(tc, lim, arr) == [meta |-> Meta(tc, lim, 0), events |-> arr]

NoPage == Page(0, 0, Absent)

(* The upstream answers the query it was sent: meta.offset is the query's offset. *)
AtOffset(page, off) == [page EXCEPT !.meta.offset = off]

(* responseData.meta.status_code = initialResponse.status *)
Annotate(page, status) ==
    [page EXCEPT !.meta = [page.meta EXCEPT !.status_code = status]]

NoResponse ==
    [statusCode |-> 0, kind |-> "none", body |-> NoPage, msgTotal |-> 0, msgMax |-> 0]

(* variant of PageResponse: meta.total_count recomputed from the merged array *)
PageResponseRecount(status, rd) ==
    [statusCode |-> status, kind |-> "page",
     body |-> [rd EXCEPT !.meta.total_count = Len(rd.events.items)],
     msgTotal |-> 0, msgMax |-> 0]

(* createResponse(status, responseData) *)
PageResponse(status, rd) ==
    [statusCode |-> status, kind |-> "page", body |-> rd, msgTotal |-> 0, msgMax |-> 0]

(* createResponse(413, {error, message naming totalCount and MAX_RECORDS_LIMIT}) *)
LimitResponse(tc, max) ==
    [statusCode |-> 413, kind |-> "limit_exceeded", body |-> NoPage,
     msgTotal |-> tc, msgMax |-> max]

(* variant of StatusOrDefault: the upstream's status is dropped *)
StatusAlways500(st) == 500

(* error.response?.status || 500 *)
StatusOrDefault(st) == IF st = 0 THEN 500 ELSE st

(* variant of FetchErrorResponse: the catch block answers with what was merged so far *)
FetchErrorResponsePartial(st, rd) ==
    [statusCode |-> StatusOrDefault(st), kind |-> "page", body |-> rd,
     msgTotal |-> 0, msgMax |-> 0]

(* the catch block of the loop, AxiosError branch: {error, message} only *)
FetchErrorResponse(st, rd) ==
    [statusCode |-> StatusOrDefault(st), kind |-> "fetch_error", body |-> NoPage,
     msgTotal |-> 0, msgMax |-> 0]

(* the catch block of the loop, non-Axios branch *)
InternalErrorResponse ==
    [statusCode |-> 500, kind |-> "internal_error", body |-> NoPage,
     msgTotal |-> 0, msgMax |-> 0]

(* handleError of the main handler, for a failed first call *)
HandleError(st) ==
    [statusCode |-> StatusOrDefault(st), kind |-> "upstream_error", body |-> NoPage,
     msgTotal |-> 0, msgMax |-> 0]

(* variant of ExceedsLimit: the ceiling is not enforced *)
ExceedsLimitNever(tc, max) == FALSE

(* variant of ExceedsLimit: >= for > *)
ExceedsLimitOffByOne(tc, max) == tc >= max

(* totalCount > MAX_RECORDS_LIMIT *)
ExceedsLimit(tc, max) == tc > max

(* variant of Decide: the totalCount <= limit return placed before the 413 *)
DecideCompleteFirst(ga, tc, lim, max) ==
    IF ~ga \/ tc = 0 \/ lim = 0 THEN "initial"
    ELSE IF tc <= lim THEN "initial"
    ELSE IF ExceedsLimit(tc, max) THEN "exceeded"
    ELSE "aggregate"

(* variant of Decide: the 413 placed before the get_all / pagination test *)
DecideCeilingFirst(ga, tc, lim, max) ==
    IF ExceedsLimit(tc, max) THEN "exceeded"
    ELSE IF ~ga \/ tc = 0 \/ lim = 0 THEN "initial"
    ELSE IF tc <= lim THEN "initial"
    ELSE "aggregate"

(* The three early returns that follow the first call, in the source's order:
   "initial" returns the annotated first page, "exceeded" the 413. *)
Decide(ga, tc, lim, max) ==
    IF ~ga \/ tc = 0 \/ lim = 0 THEN "initial"
    ELSE IF ExceedsLimit(tc, max) THEN "exceeded"
    ELSE IF tc <= lim THEN "initial"
    ELSE "aggregate"

(* variant of TotalRequests: Math.floor for Math.ceil *)
TotalRequestsFloor(tc, lim) == tc \div lim

(* Math.ceil(totalCount / limit) *)
TotalRequests(tc, lim) == Ceil(tc, lim)

(* variant of ResponseDataOf: the array merged by an earlier request is kept *)
ResponseDataKept(page, old) ==
    IF old.events.present /\ page.events.present
    THEN [page EXCEPT !.events = Arr(old.events.items \o page.events.items)]
    ELSE page

(* let responseData = initialResponse.data: a local bound to the body of this
   request's first response, whatever an earlier request left (old) *)
ResponseDataOf(page, old) == page

(* const offset = i * limit *)
OffsetOf(k, lim) == k * lim

(* variant of FirstFetches: every additional fetch is issued at once *)
FirstFetchesAll(rr, lim) == [k \in 1..rr |-> OffsetOf(k, lim)]

(* for (let i = 1; ...) { ...; await axios.get(...) }: the fetches issued when
   the loop first awaits are the one of i = 1 *)
FirstFetches(rr, lim) == <<OffsetOf(1, lim)>>

(* variant of Push: items already merged are skipped *)
PushNoDuplicates(acc, its) ==
    acc \o SelectSeq(its, LAMBDA x : \A j \in 1..Len(acc) : acc[j] # x)

(* responseData.data.events.push(...items) *)
Push(acc, its) == acc \o its

(***************************************************************************)
(* Aggregation: the handler.                                               *)
(***************************************************************************)

(* The first call returned: annotate, then the early returns or the first  *)
(* additional fetch.                                                       *)
InitialCallReturns(tc, lim, arr) ==
    /\ agg_pc = "start"
    /\ initialPage' = AtOffset(Page(tc, lim, arr), queryOffset)
    /\ LET rd == Annotate(ResponseDataOf(AtOffset(Page(tc, lim, arr), queryOffset),
                                         responseData), 200)
           d  == Decide(getAll, tc, lim, MAX_RECORDS_LIMIT)
           rr == IF lim = 0 THEN 0 ELSE TotalRequests(tc, lim) - 1
       IN  /\ responseData' = rd
           /\ IF d = "initial"
              THEN /\ response' = PageResponse(200, rd)
                   /\ agg_pc' = "done"
                   /\ UNCHANGED <<remainingRequests, i, fetched>>
              ELSE IF d = "exceeded"
              THEN /\ response' = LimitResponse(tc, MAX_RECORDS_LIMIT)
                   /\ agg_pc' = "done"
                   /\ UNCHANGED <<remainingRequests, i, fetched>>
              ELSE IF 1 <= rr
              THEN /\ remainingRequests' = rr
                   /\ i' = 1
                   /\ fetched' = FirstFetches(rr, lim)
                   /\ agg_pc' = "loop"
                   /\ UNCHANGED response
              ELSE /\ remainingRequests' = rr
                   /\ response' = PageResponse(200, rd)
                   /\ agg_pc' = "done"
                   /\ UNCHANGED <<i, fetched>>
    /\ UNCHANGED <<MAX_RECORDS_LIMIT, getAll, served, queryOffset, upstreamError>>
    /\ UNCHANGED <<scrVars, hookVars, gateVars, concVars, cacheVars>>

(* The first call failed: the exception reaches the main handler. *)
InitialCallFails(st) ==
    /\ agg_pc = "start"
    /\ response' = HandleError(st)
    /\ upstreamError' = st
    /\ agg_pc' = "done"
    /\ UNCHANGED <<MAX_RECORDS_LIMIT, getAll, initialPage, responseData,
                   remainingRequests, i, fetched, served, queryOffset>>
    /\ UNCHANGED <<scrVars, hookVars, gateVars, concVars, cacheVars>>

(* The additional fetch in flight returned: push, then the next fetch or   *)
(* the final response.                                                     *)
AdditionalCallReturns(arr) ==
    /\ agg_pc = "loop"
    /\ served' = Append(served, arr)
    /\ IF arr.present /\ ~responseData.events.present
       THEN \* push on undefined: TypeError, caught by the loop's catch
            /\ response' = InternalErrorResponse
            /\ agg_pc' = "done"
            /\ UNCHANGED <<responseData, i, fetched>>
       ELSE LET rd == IF arr.present
                      THEN [responseData EXCEPT
                               !.events = Arr(Push(responseData.events.items, arr.items))]
                      ELSE responseData
            IN  /\ responseData' = rd
                /\ i' = i + 1
                /\ IF i + 1 <= remainingRequests
                   THEN /\ fetched' = Append(fetched, OffsetOf(i + 1, rd.meta.limit))
                        /\ UNCHANGED <<agg_pc, response>>
                   ELSE /\ response' = PageResponse(200, rd)
                        /\ agg_pc' = "done"
                        /\ UNCHANGED fetched
    /\ UNCHANGED <<MAX_RECORDS_LIMIT, getAll, initialPage, remainingRequests,
                   queryOffset, upstreamError>>
    /\ UNCHANGED <<scrVars, hookVars, gateVars, concVars, cacheVars>>

(* The additional fetch in flight failed. *)
AdditionalCallFails(st) ==
    /\ agg_pc = "loop"
    /\ response' = FetchErrorResponse(st, responseData)
    /\ upstreamError' = st
    /\ agg_pc' = "done"
    /\ UNCHANGED <<MAX_RECORDS_LIMIT, getAll, initialPage, responseData,
                   remainingRequests, i, fetched, served, queryOffset>>
    /\ UNCHANGED <<scrVars, hookVars, gateVars, concVars, cacheVars>>

(***************************************************************************)
(* Two successive requests with the same query against a deterministic     *)
(* page source: the upstream answers a given offset the same way each time *)
(* it is asked.                                                            *)
(***************************************************************************)

Outcome(ok, st, tc, lim, arr) ==
    [ok |-> ok, st |-> st, tc |-> tc, lim |-> lim, arr |-> arr]

(* the offset of the additional fetch in flight *)
InFlight == fetched[Len(fetched)]

(* source, with the answer to offset o recorded when it is the first one *)
Recorded(o, out) ==
    IF o \in DOMAIN source
    THEN source
    ELSE [k \in DOMAIN source \cup {o} |-> IF k = o THEN out ELSE source[k]]

(* What the upstream can answer to the first call: what it answered before, or
   any page or failure when the offset is asked for the first time. *)
FirstCallAnswers ==
    IF queryOffset \in DOMAIN source
    THEN {source[queryOffset]}
    ELSE {Outcome(TRUE, 0, tc, lim, arr) :
              tc \in TotalCounts, lim \in 0..MaxLimit, arr \in PageArrays}
         \cup {Outcome(FALSE, st, 0, 0, Absent) : st \in ErrorStatuses}

(* The first call is the client's query: it is answered at queryOffset. *)
SourceInitialCallReturns(tc, lim, arr) ==
    /\ queryOffset \in DOMAIN source
          => source[queryOffset] = Outcome(TRUE, 0, tc, lim, arr)
    /\ InitialCallReturns(tc, lim, arr)
    /\ source' = Recorded(queryOffset, Outcome(TRUE, 0, tc, lim, arr))
    /\ UNCHANGED <<run, firstResponse>>

SourceInitialCallFails(st) ==
    /\ queryOffset \in DOMAIN source
          => source[queryOffset] = Outcome(FALSE, st, 0, 0, Absent)
    /\ InitialCallFails(st)
    /\ source' = Recorded(queryOffset, Outcome(FALSE, st, 0, 0, Absent))
    /\ UNCHANGED <<run, firstResponse>>

(* An additional fetch replaces the offset parameter: it is answered at i * limit.
   Only the array of its page is read. *)
SourceAdditionalCallReturns(arr) ==
    /\ agg_pc = "loop"
    /\ InFlight \in DOMAIN source
          => source[InFlight].ok /\ source[InFlight].arr = arr
    /\ AdditionalCallReturns(arr)
    /\ source' = Recorded(InFlight, Outcome(TRUE, 0, 0, 0, arr))
    /\ UNCHANGED <<run, firstResponse>>

SourceAdditionalCallFails(st) ==
    /\ agg_pc = "loop"
    /\ InFlight \in DOMAIN source
          => ~source[InFlight].ok /\ source[InFlight].st = st
    /\ AdditionalCallFails(st)
    /\ source' = Recorded(InFlight, Outcome(FALSE, st, 0, 0, Absent))
    /\ UNCHANGED <<run, firstResponse>>

(* The handler is invoked again with the same event: every local of the
   handler is bound anew by the second invocation. *)
StartSecondRun ==
    /\ run = 1
    /\ agg_pc = "done"
    /\ run' = 2
    /\ firstResponse' = response
    /\ agg_pc' = "start"
    /\ initialPage' = NoPage
    /\ remainingRequests' = 0
    /\ i' = 0
    /\ fetched' = <<>>
    /\ served' = <<>>
    /\ response' = NoResponse
    /\ upstreamError' = -1
    /\ UNCHANGED <<MAX_RECORDS_LIMIT, getAll, queryOffset, responseData, source>>
    /\ UNCHANGED <<scrVars, hookVars, gateVars, concVars, cacheVars>>

(***************************************************************************)
(* Screener: constants and pure helpers.                                   *)
(***************************************************************************)
PTE_TIMEOUT == 300000
InitialDelayMs == 5000
PollIntervalMs == 5000

(* The <<timeout, poll interval>> pairs the loop is run with: the source's own,
   and shorter timeouts with and without a remainder. *)
Configs ==
    {<<PTE_TIMEOUT, PollIntervalMs>>, <<20000, 5000>>, <<22500, 5000>>, <<20000, 7500>>}

(* Durations of an upstream call. *)
Latencies == {k * 2500 : k \in 0..MaxLatencySteps}

TransactionIds == {"tx1", "tx2"}

NoObjects(how) ==
    [objects |-> how, screening_status |-> "none",
     report_generation_complete |-> FALSE, overall_severity |-> "none"]

(* The bodies a status call can return: objects missing, empty, or objects[0]. *)
PollResponses ==
    {NoObjects("missing"), NoObjects("empty")} \cup
    [objects : {"one"}, screening_status : {"PENDING", "COMPLETE"},
     report_generation_complete : BOOLEAN, overall_severity : {"LOW", "HIGH"}]

NoPollResponse == NoObjects("none")

(* statusResponse.objects && statusResponse.objects.length > 0 *)
HasObjects(r) == r.objects = "one"

(* variant of IsComplete: a response without objects ends the screening *)
IsCompleteOrNoObjects(r) ==
    r.objects # "one"
        \/ (r.screening_status # "PENDING" /\ r.report_generation_complete)

(* variant of IsComplete: || for && *)
IsCompleteEither(r) ==
    HasObjects(r) /\ (r.screening_status # "PENDING" \/ r.report_generation_complete)

(* screeningStatus !== 'PENDING' && reportStatus, inside the objects test *)
IsComplete(r) ==
    HasObjects(r) /\ r.screening_status # "PENDING" /\ r.report_generation_complete

(* variant of CapturedSeverity: the verdict is derived from the screening status *)
CapturedSeverityFromStatus(r) == IF r.screening_status = "COMPLETE" THEN "LOW" ELSE "HIGH"

(* variant of CapturedSeverity: the verdict is not taken from the response *)
CapturedSeverityDefault(r) == "ERROR"

(* screeningResult.overall_severity = statusResponse.objects[0].overall_severity *)
CapturedSeverity(r) == r.overall_severity

(* variant of WithinTimeout: <= for < *)
WithinTimeoutInclusive(e, timeout) == e <= timeout

(* (Date.now() - startTime) < PTE_TIMEOUT *)
WithinTimeout(e, timeout) == e < timeout

(* variant of DefaultSeverity: no default verdict *)
DefaultSeverityNone == "none"

(* overall_severity: 'ERROR', the default value in case of timeout *)
DefaultSeverity == "ERROR"

(* variant of SleepDuration: the timer fires after half the delay *)
SleepDurationHalf(ms) == ms \div 2

(* sleep(ms): the time that passes before the promise resolves *)
SleepDuration(ms) == ms

Slept(kind, ms) == [kind |-> kind, ms |-> ms]

(***************************************************************************)
(* Screener: handleAutoScreening.                                          *)
(***************************************************************************)

(* axios.post returned; sleep(5000) begins.  The clock is first read after
   that sleep, so the duration of the submission only shifts every later
   time: now = 0 is the time at which the submission returns. *)
SubmitReturns(tid) ==
    /\ scr_pc = "idle"
    /\ submits' = submits + 1
    /\ pteResponse' = tid
    /\ scr_pc' = "initialSleep"
    /\ UNCHANGED <<now, timeoutMs, pollIntervalMs, startTime, screeningComplete,
                   screeningResult, polls, pollStart, pollLatency, lastResponse,
                   pending, sleeps>>
    /\ UNCHANGED <<aggVars, twiceVars, hookVars, gateVars, concVars, cacheVars>>

(* variant of SubmitFails: the failure is swallowed and the screening goes on *)
SubmitFailsSwallowed ==
    /\ scr_pc = "idle"
    /\ submits' = submits + 1
    /\ scr_pc' = "initialSleep"
    /\ UNCHANGED <<now, pteResponse, timeoutMs, pollIntervalMs, startTime, screeningComplete,
                   screeningResult, polls, pollStart, pollLatency, lastResponse,
                   pending, sleeps>>
    /\ UNCHANGED <<aggVars, twiceVars, hookVars, gateVars, concVars, cacheVars>>

(* axios.post failed: the exception leaves handleAutoScreening. *)
SubmitFails ==
    /\ scr_pc = "idle"
    /\ submits' = submits + 1
    /\ scr_pc' = "thrown"
    /\ UNCHANGED <<now, pteResponse, timeoutMs, pollIntervalMs, startTime, screeningComplete,
                   screeningResult, polls, pollStart, pollLatency, lastResponse,
                   pending, sleeps>>
    /\ UNCHANGED <<aggVars, twiceVars, hookVars, gateVars, concVars, cacheVars>>

(* The loop's condition and what follows it: the next status call, or the
   return of screeningResult. *)
LoopTest(t, start) ==
    IF WithinTimeout(t - start, timeoutMs)
    THEN /\ polls' = polls + 1
         /\ pollStart' = t - start
         /\ scr_pc' = "polling"
    ELSE /\ scr_pc' = "returned"
         /\ UNCHANGED <<polls, pollStart>>

(* variant of StartTimeOf: the timeout clock starts at the submission *)
StartTimeAtSubmission(submitted, delayed) == submitted

(* const startTime = Date.now(), read after the initial sleep (delayed), not
   when the submission returned (submitted) *)
StartTimeOf(submitted, delayed) == delayed

(* The initial sleep ends: startTime, the result's default, the first test. *)
InitialSleepEnds ==
    /\ scr_pc = "initialSleep"
    /\ now' = now + SleepDuration(InitialDelayMs)
    /\ sleeps' = Append(sleeps, Slept("initial", InitialDelayMs))
    /\ startTime' = StartTimeOf(now, now')
    /\ screeningComplete' = FALSE
    /\ screeningResult' = [transaction_id |-> pteResponse, overall_severity |-> DefaultSeverity]
    /\ LoopTest(now', StartTimeOf(now, now'))
    /\ UNCHANGED <<pteResponse, timeoutMs, pollIntervalMs, submits, pollLatency,
                   lastResponse, pending>>
    /\ UNCHANGED <<aggVars, twiceVars, hookVars, gateVars, concVars, cacheVars>>

(* The status call returned r after lat ms: complete and return, or sleep. *)
PollReturns(r, lat) ==
    /\ scr_pc = "polling"
    /\ now' = now + lat
    /\ pollLatency' = lat
    /\ lastResponse' = r
    /\ IF IsComplete(r)
       THEN /\ screeningComplete' = TRUE
            /\ screeningResult' =
                  [screeningResult EXCEPT !.overall_severity = CapturedSeverity(r)]
            /\ scr_pc' = "returned"
            /\ UNCHANGED pending
       ELSE /\ pending' = pending + 1
            /\ scr_pc' = "sleeping"
            /\ UNCHANGED <<screeningComplete, screeningResult>>
    /\ UNCHANGED <<pteResponse, timeoutMs, pollIntervalMs, startTime, submits, polls,
                   pollStart, sleeps>>
    /\ UNCHANGED <<aggVars, twiceVars, hookVars, gateVars, concVars, cacheVars>>

(* variant of PollFails: the failure is swallowed and the loop goes on to its sleep *)
PollFailsSwallowed(lat) ==
    /\ scr_pc = "polling"
    /\ now' = now + lat
    /\ pollLatency' = lat
    /\ scr_pc' = "sleeping"
    /\ UNCHANGED <<pteResponse, timeoutMs, pollIntervalMs, startTime, screeningComplete,
                   screeningResult, submits, polls, pollStart, lastResponse, pending,
                   sleeps>>
    /\ UNCHANGED <<aggVars, twiceVars, hookVars, gateVars, concVars, cacheVars>>

(* The status call failed: the exception leaves handleAutoScreening. *)
PollFails(lat) ==
    /\ scr_pc = "polling"
    /\ now' = now + lat
    /\ pollLatency' = lat
    /\ scr_pc' = "thrown"
    /\ UNCHANGED <<pteResponse, timeoutMs, pollIntervalMs, startTime, screeningComplete,
                   screeningResult, submits, polls, pollStart, lastResponse, pending,
                   sleeps>>
    /\ UNCHANGED <<aggVars, twiceVars, hookVars, gateVars, concVars, cacheVars>>

(* The loop's sleep ends: the next test. *)
SleepEnds ==
    /\ scr_pc = "sleeping"
    /\ now' = now + SleepDuration(pollIntervalMs)
    /\ sleeps' = Append(sleeps, Slept("interval", pollIntervalMs))
    /\ LoopTest(now', startTime)
    /\ UNCHANGED <<pteResponse, timeoutMs, pollIntervalMs, startTime, screeningComplete,
                   screeningResult, submits, pollLatency, lastResponse, pending>>
    /\ UNCHANGED <<aggVars, twiceVars, hookVars, gateVars, concVars, cacheVars>>

(***************************************************************************)
(* storeWebhookNotification, for a notification that parses and carries    *)
(* its event details.                                                      *)
(***************************************************************************)

NoAutoScreening ==
    [present |-> FALSE, transaction_id |-> "none", overall_severity |-> "none"]

(* data = {...data, auto_screening: screeningResult} *)
AutoScreening(result) ==
    [present |-> TRUE, transaction_id |-> result.transaction_id,
     overall_severity |-> result.overall_severity]

(* variant of StoreReceives: the screening does not depend on the IMO number *)
StoreReceivesAnyVessel ==
    /\ hook_pc = "received"
    /\ IF wantsScreening
       THEN /\ hook_pc' = "screening"
            /\ UNCHANGED puts
       ELSE /\ hook_pc' = "storing"
            /\ puts' = Append(puts, autoScreening)
    /\ UNCHANGED <<wantsScreening, imoPresent, autoScreening, stored, hookResponse>>
    /\ UNCHANGED <<aggVars, twiceVars, scrVars, gateVars, concVars, cacheVars>>

(* The body is parsed and custom_reference tested: handleAutoScreening is
   called, or the item is handed to dynamodb.put at once. *)
StoreReceives ==
    /\ hook_pc = "received"
    /\ IF wantsScreening /\ imoPresent
       THEN /\ hook_pc' = "screening"
            /\ UNCHANGED puts
       ELSE /\ hook_pc' = "storing"
            /\ puts' = Append(puts, autoScreening)
    /\ UNCHANGED <<wantsScreening, imoPresent, autoScreening, stored, hookResponse>>
    /\ UNCHANGED <<aggVars, twiceVars, scrVars, gateVars, concVars, cacheVars>>

(* handleAutoScreening returned: its result is attached, the item is put. *)
ScreeningReturns ==
    /\ hook_pc = "screening"
    /\ scr_pc = "returned"
    /\ autoScreening' = AutoScreening(screeningResult)
    /\ puts' = Append(puts, AutoScreening(screeningResult))
    /\ hook_pc' = "storing"
    /\ UNCHANGED <<wantsScreening, imoPresent, stored, hookResponse>>
    /\ UNCHANGED <<aggVars, twiceVars, scrVars, gateVars, concVars, cacheVars>>

(* variant of ScreeningThrows: the exception reaches the outer catch *)
ScreeningThrowsPropagates ==
    /\ hook_pc = "screening"
    /\ scr_pc = "thrown"
    /\ hookResponse' = 500
    /\ hook_pc' = "done"
    /\ UNCHANGED <<wantsScreening, imoPresent, autoScreening, puts, stored>>
    /\ UNCHANGED <<aggVars, twiceVars, scrVars, gateVars, concVars, cacheVars>>

(* handleAutoScreening threw: the inner catch logs, the item is put as it is. *)
ScreeningThrows ==
    /\ hook_pc = "screening"
    /\ scr_pc = "thrown"
    /\ puts' = Append(puts, autoScreening)
    /\ hook_pc' = "storing"
    /\ UNCHANGED <<wantsScreening, imoPresent, autoScreening, stored, hookResponse>>
    /\ UNCHANGED <<aggVars, twiceVars, scrVars, gateVars, concVars, cacheVars>>

(* dynamodb.put resolved: 201 *)
PutSucceeds ==
    /\ hook_pc = "storing"
    /\ stored' = Append(stored, puts[Len(puts)])
    /\ hookResponse' = 201
    /\ hook_pc' = "done"
    /\ UNCHANGED <<wantsScreening, imoPresent, autoScreening, puts>>
    /\ UNCHANGED <<aggVars, twiceVars, scrVars, gateVars, concVars, cacheVars>>

(* dynamodb.put rejected: the outer catch answers 500 *)
PutFails ==
    /\ hook_pc = "storing"
    /\ hookResponse' = 500
    /\ hook_pc' = "done"
    /\ UNCHANGED <<wantsScreening, imoPresent, autoScreening, puts, stored>>
    /\ UNCHANGED <<aggVars, twiceVars, scrVars, gateVars, concVars, cacheVars>>

(***************************************************************************)
(* The main handlers of the zone-and-port and voyage endpoints: CORS       *)
(* preflight, routing, the access token, the path parameter.               *)
(***************************************************************************)

(* A header of the event: absent, or a string (its characters). *)
NoHeader == [present |-> FALSE, text |-> <<>>]
Header(t) == [present |-> TRUE, text |-> t]

BearerPrefix == <<"B", "e", "a", "r", "e", "r", " ">>
TokenText == <<"t">>

(* JavaScript truthiness of a header value: defined and not '' *)
Truthy(h) == h.present /\ h.text # <<>>

(* String.prototype.startsWith and slice(n) *)
StartsWith(t, p) == Len(t) >= Len(p) /\ SubSeq(t, 1, Len(p)) = p
Slice(t, n) == SubSeq(t, n + 1, Len(t))

(* a || b *)
Or(a, b) == IF Truthy(a) THEN a ELSE b

(* extractAccessToken: returns the token, '' for a bare 'Bearer ', or null *)
ExtractAccessToken(hs) ==
    LET first == Or(hs.Authorization, hs.authorization)
        tok   == IF ~Truthy(first) /\ Truthy(hs.accessToken) THEN hs.accessToken ELSE first
    IN  IF tok.present /\ StartsWith(tok.text, BearerPrefix)
        THEN Header(Slice(tok.text, 7))
        ELSE Or(tok, NoHeader)

(* variant of TokenMissing: only null counts as missing *)
TokenMissingNullOnly(tok) == ~tok.present

(* !accessToken *)
TokenMissing(tok) == ~Truthy(tok)

ZoneRoutes == {"byId", "traffic", "vessels", "list"}
VoyageRoutes == {"voyage"}

(* requiresAuth of the endpoint table of the zone-and-port handler *)
RequiresAuth(r) == r \in {"traffic", "vessels", "list"}

(* endpoints.find(...): an endpoint of the handler with the event's method *)
EndpointFound == httpMethod = "GET" /\ route # "unknown"

(* The main handler up to the first await of the endpoint handler: either it
   answers by itself, or the endpoint handler has issued its first upstream
   call. *)
Dispatch ==
    /\ gate_pc = "received"
    /\ LET tok == ExtractAccessToken(requestHeaders)
       IN  IF httpMethod = "OPTIONS"
           THEN /\ gateResponse' = 200
                /\ gate_pc' = "done"
                /\ UNCHANGED accessToken
           ELSE IF handlerKind = "voyage"
           THEN /\ accessToken' = tok
                /\ IF TokenMissing(tok)
                   THEN gateResponse' = 401 /\ gate_pc' = "done"
                   ELSE IF ~EndpointFound
                   THEN gateResponse' = 404 /\ gate_pc' = "done"
                   ELSE IF ~idPresent
                   THEN gateResponse' = 400 /\ gate_pc' = "done"
                   ELSE gate_pc' = "handling" /\ UNCHANGED gateResponse
           ELSE IF ~EndpointFound
           THEN /\ gateResponse' = 404
                /\ gate_pc' = "done"
                /\ UNCHANGED accessToken
           ELSE IF RequiresAuth(route)
           THEN /\ accessToken' = tok
                /\ IF TokenMissing(tok)
                   THEN gateResponse' = 401 /\ gate_pc' = "done"
                   ELSE IF route # "list" /\ ~idPresent
                   THEN gateResponse' = 400 /\ gate_pc' = "done"
                   ELSE gate_pc' = "handling" /\ UNCHANGED gateResponse
           ELSE /\ UNCHANGED accessToken
                /\ gate_pc' = "done"
                /\ IF ~idPresent
                   THEN gateResponse' = 400
                   ELSE gateResponse' \in {200, 404}
    /\ UNCHANGED <<handlerKind, httpMethod, route, requestHeaders, idPresent>>
    /\ UNCHANGED <<aggVars, twiceVars, hookVars, scrVars, concVars, cacheVars>>

(***************************************************************************)
(* Two invocations of the aggregating handler interleaved in one process:  *)
(* each runs until it awaits, and every variable of the handler is a local *)
(* of its invocation.                                                      *)
(***************************************************************************)

Invocation(pc, ga, ip, rd, rr, idx, fs, sv, rsp, qo, ue) ==
    [agg_pc |-> pc, getAll |-> ga, initialPage |-> ip, responseData |-> rd,
     remainingRequests |-> rr, i |-> idx, fetched |-> fs, served |-> sv,
     response |-> rsp, queryOffset |-> qo, upstreamError |-> ue]

(* an invocation whose first call is in flight *)
NewInvocation(ga) ==
    Invocation("start", ga, NoPage, NoPage, 0, 0, <<>>, <<>>, NoResponse, 0, -1)

(* the locals of the invocation that is running *)
Running ==
    Invocation(agg_pc, getAll, initialPage, responseData, remainingRequests, i,
               fetched, served, response, queryOffset, upstreamError)

(* variant of Switch: the accumulator is a variable of the module, not a local *)
SwitchSharedAccumulator ==
    /\ active' = 3 - active
    /\ suspended' = Running
    /\ agg_pc' = suspended.agg_pc
    /\ getAll' = suspended.getAll
    /\ initialPage' = suspended.initialPage
    /\ remainingRequests' = suspended.remainingRequests
    /\ i' = suspended.i
    /\ fetched' = suspended.fetched
    /\ served' = suspended.served
    /\ response' = suspended.response
    /\ queryOffset' = suspended.queryOffset
    /\ upstreamError' = suspended.upstreamError
    /\ UNCHANGED <<MAX_RECORDS_LIMIT, responseData>>
    /\ UNCHANGED <<twiceVars, hookVars, scrVars, gateVars, cacheVars>>

(* The event loop resumes the other invocation: the running one stays at its
   await with its locals, the other one's locals are the ones acted on. *)
Switch ==
    /\ active' = 3 - active
    /\ suspended' = Running
    /\ agg_pc' = suspended.agg_pc
    /\ getAll' = suspended.getAll
    /\ initialPage' = suspended.initialPage
    /\ responseData' = suspended.responseData
    /\ remainingRequests' = suspended.remainingRequests
    /\ i' = suspended.i
    /\ fetched' = suspended.fetched
    /\ served' = suspended.served
    /\ response' = suspended.response
    /\ queryOffset' = suspended.queryOffset
    /\ upstreamError' = suspended.upstreamError
    /\ UNCHANGED MAX_RECORDS_LIMIT
    /\ UNCHANGED <<twiceVars, hookVars, scrVars, gateVars, cacheVars>>

(* What the upstream holds for the query of request r: items of its own. *)
ItemOf(r) == IF r = 1 THEN "a" ELSE "b"
PagesOf(r) == {Arr(s) : s \in UNION {[1..k -> {ItemOf(r)}] : k \in 0..MaxPageLen}}

(***************************************************************************)
(* The reference-data cache of the CSV handler: recordsCache, loadRecords, *)
(* getRecordById and searchRecords, called by the callers of one process.  *)
(***************************************************************************)

Callers == 1..MaxCallers

(* A caller calls getRecordById or search.  Both go through the null test of
   the cache: populated, the call is answered from it; null, the GetObject
   command is sent and awaited. *)
CallStarts(c, kind) ==
    /\ caller_pc[c] = "idle"
    /\ callsLeft[c] > 0
    /\ callsLeft' = [callsLeft EXCEPT ![c] = @ - 1]
    /\ IF recordsCache # "null"
       THEN /\ lastResult' = [lastResult EXCEPT ![c] = "answered"]
            /\ UNCHANGED <<caller_pc, loadsStarted, startedWhilePopulated>>
       ELSE /\ caller_pc' = [caller_pc EXCEPT ![c] = kind]
            /\ loadsStarted' = loadsStarted + 1
            /\ startedWhilePopulated' =
                  startedWhilePopulated + (IF everPopulated THEN 1 ELSE 0)
            /\ UNCHANGED lastResult
    /\ UNCHANGED <<recordsCache, loadsSucceeded, everPopulated>>
    /\ UNCHANGED <<aggVars, twiceVars, hookVars, scrVars, gateVars, concVars>>

(* The object arrived and parsed: recordsCache = {} and its filling run
   without an await in between. *)
LoadSucceeds(c) ==
    /\ caller_pc[c] \in {"getRecordById", "search"}
    /\ recordsCache' = "records"
    /\ everPopulated' = TRUE
    /\ loadsSucceeded' = loadsSucceeded + 1
    /\ caller_pc' = [caller_pc EXCEPT ![c] = "idle"]
    /\ lastResult' = [lastResult EXCEPT ![c] = "answered"]
    /\ UNCHANGED <<callsLeft, loadsStarted, startedWhilePopulated>>
    /\ UNCHANGED <<aggVars, twiceVars, hookVars, scrVars, gateVars, concVars>>

(* The command, the stream or the parser failed, all before recordsCache is
   assigned: loadRecords rethrows; getRecordById answers null, search throws. *)
LoadFails(c) ==
    /\ caller_pc[c] \in {"getRecordById", "search"}
    /\ caller_pc' = [caller_pc EXCEPT ![c] = "idle"]
    /\ lastResult' =
          [lastResult EXCEPT ![c] = IF caller_pc[c] = "getRecordById" THEN "null" ELSE "thrown"]
    /\ UNCHANGED <<recordsCache, callsLeft, loadsStarted, loadsSucceeded,
                   startedWhilePopulated, everPopulated>>
    /\ UNCHANGED <<aggVars, twiceVars, hookVars, scrVars, gateVars, concVars>>

(***************************************************************************)
(* Aggregation: properties.                                                *)
(***************************************************************************)

(* the first call returned a page *)
FirstPageReceived == agg_pc # "start" /\ response.kind # "upstream_error"

totalCount == initialPage.meta.total_count
limit == initialPage.meta.limit

(* the flattening of the arrays of a sequence of pages, absent arrays counting as empty *)
RECURSIVE Concat(_)
Concat(pages) ==
    IF pages = <<>> THEN <<>> ELSE Head(pages).items \o Concat(Tail(pages))

RECURSIVE SumLen(_)
SumLen(pages) ==
    IF pages = <<>> THEN 0 ELSE Len(Head(pages).items) + SumLen(Tail(pages))

(* C1, as the claim states it: with get_all=true and total_count <= limit the
   handler returns the annotated first page and issues no additional fetch,
   whatever the ceiling is. *)
C1_PassThroughAnyCeiling ==
    (FirstPageReceived /\ getAll /\ totalCount <= limit)
        => /\ agg_pc = "done"
           /\ response = PageResponse(200, Annotate(initialPage, 200))
           /\ fetched = <<>>

(* C1, amended: with get_all=true, total_count <= limit and total_count not
   above MAX_RECORDS_LIMIT, the handler returns the first page (its array and
   meta as served, meta annotated with the status) and issues no additional
   fetch. *)
C1_PassThroughWithinCeiling ==
    (FirstPageReceived /\ getAll /\ totalCount <= limit
        /\ totalCount <= MAX_RECORDS_LIMIT)
        => /\ agg_pc = "done"
           /\ response = PageResponse(200, Annotate(initialPage, 200))
           /\ fetched = <<>>

C1_Witness ==
    /\ agg_pc = "done" /\ getAll
    /\ 0 < totalCount /\ totalCount <= limit /\ totalCount <= MAX_RECORDS_LIMIT
    /\ response.kind = "page" /\ response.body.events = initialPage.events
    /\ fetched = <<>>

(* C2: when aggregation is requested on a paginated first page (get_all=true,
   meta.limit present) whose total_count exceeds MAX_RECORDS_LIMIT, the
   response is the 413 whose message names total_count and the ceiling, and no
   additional fetch is issued. *)
C2_FailFast ==
    (FirstPageReceived /\ getAll /\ limit # 0 /\ totalCount > MAX_RECORDS_LIMIT)
        => /\ agg_pc = "done"
           /\ response.statusCode = 413
           /\ response.kind = "limit_exceeded"
           /\ response.msgTotal = totalCount
           /\ response.msgMax = MAX_RECORDS_LIMIT
           /\ fetched = <<>>

C2_Witness ==
    /\ agg_pc = "done" /\ getAll /\ limit # 0
    /\ totalCount > MAX_RECORDS_LIMIT
    /\ response.statusCode = 413 /\ fetched = <<>>

(* positive multiples of the limit below total_count *)
PageOffsets == {o \in 1..(totalCount - 1) : limit # 0 /\ o % limit = 0}

(* C3: when aggregation proceeds (limit < total_count <= MAX_RECORDS_LIMIT), the
   fetches issued are at offsets limit, 2*limit, ... in that order and at no
   other offset; a successful aggregation has issued exactly
   ceil(total_count / limit) - 1 of them, one per positive multiple of limit
   below total_count, so that for total_count a multiple of limit the last one
   is at total_count - limit. *)
C3_ExactPageMath ==
    (FirstPageReceived /\ getAll /\ 0 < limit /\ limit < totalCount
        /\ totalCount <= MAX_RECORDS_LIMIT)
        => /\ fetched # <<>>
           /\ \A k \in 1..Len(fetched) : fetched[k] = k * limit
           /\ Len(fetched) <= Ceil(totalCount, limit) - 1
           /\ response.kind = "page" =>
                /\ Len(fetched) = Ceil(totalCount, limit) - 1
                /\ {fetched[k] : k \in 1..Len(fetched)} = PageOffsets
                /\ totalCount % limit = 0
                     => fetched[Len(fetched)] = totalCount - limit

C3_Witness ==
    /\ agg_pc = "done" /\ response.kind = "page"
    /\ totalCount = 4 /\ limit = 2
    /\ fetched = <<2>>

C3_WitnessRemainder ==
    /\ agg_pc = "done" /\ response.kind = "page"
    /\ totalCount = 4 /\ limit = 3
    /\ fetched = <<3>>

(* C4: the array of a successful response is the first page's array followed by
   the arrays of the additional pages in fetch order, items in page order,
   duplicates kept; its length is the sum of the pages' lengths. *)
C4_MergedIsConcatenation ==
    (agg_pc = "done" /\ response.kind = "page")
        => /\ response.body.events.items = initialPage.events.items \o Concat(served)
           /\ Len(response.body.events.items)
                = Len(initialPage.events.items) + SumLen(served)

C4_Witness ==
    /\ agg_pc = "done" /\ response.kind = "page"
    /\ Len(served) = 2
    /\ initialPage.events = Arr(<<"a", "b">>)
    /\ served[1] = Arr(<<"b", "a">>)
    /\ served[2] = Arr(<<"a">>)
    /\ response.body.events.items = <<"a", "b", "b", "a", "a">>

(* C5: when an additional fetch fails, the failed fetch is the last one issued,
   the response is an error response that carries no items, and a response that
   carries items is never returned before every additional fetch has returned. *)
C5_AbortOnFailure ==
    /\ response.kind = "fetch_error"
         => /\ agg_pc = "done"
            /\ Len(fetched) = Len(served) + 1
            /\ response.body = NoPage
            /\ response.statusCode \in {404, 500, 503}
    /\ (response.kind = "page" /\ fetched # <<>>)
         => /\ Len(served) = Len(fetched)
            /\ Len(fetched) = remainingRequests

C5_Witness ==
    /\ agg_pc = "done" /\ response.kind = "fetch_error"
    /\ Len(served) >= 1 /\ Len(fetched) = 2 /\ remainingRequests >= 3
    /\ Len(responseData.events.items) > Len(initialPage.events.items)
    /\ response.body = NoPage


(***************************************************************************)
(* Screener: properties.                                                   *)
(***************************************************************************)

elapsed == now - startTime

(* the sleeps of a screening that saw k responses that did not complete it *)
ExpectedSleeps(k) ==
    <<Slept("initial", InitialDelayMs)>>
        \o [j \in 1..k |-> Slept("interval", pollIntervalMs)]

(* C6: a screening that returns after k pending responses and a terminal one
   has issued exactly k+1 polls, has slept the initial delay once and then the
   poll interval exactly k times (none after the terminal poll), and returns
   the terminal response's overall_severity. *)
C6_ScreeningCompletes ==
    (scr_pc = "returned" /\ screeningComplete)
        => /\ polls = pending + 1
           /\ sleeps = ExpectedSleeps(pending)
           /\ lastResponse.objects = "one"
           /\ lastResponse.screening_status # "PENDING"
           /\ lastResponse.report_generation_complete
           /\ screeningResult.overall_severity = lastResponse.overall_severity

C6_Witness ==
    /\ scr_pc = "returned" /\ screeningComplete
    /\ pending = 2 /\ polls = 3
    /\ screeningResult.overall_severity = "LOW"
    /\ sleeps = <<Slept("initial", 5000), Slept("interval", 5000), Slept("interval", 5000)>>

(* C7, as the claim states it: a screening whose polls never complete returns
   ERROR; with a timeout of 20000 and an interval of 5000 it has issued at
   most 4 polls and returns no later than timeout + interval after polling
   began. *)
C7_TimesOutWithinOneInterval ==
    (scr_pc = "returned" /\ ~screeningComplete)
        => /\ screeningResult.overall_severity = "ERROR"
           /\ (timeoutMs = 20000 /\ pollIntervalMs = 5000) => polls <= 4
           /\ elapsed <= timeoutMs + pollIntervalMs

(* C7, amended: a screening whose polls never complete returns ERROR; with a
   timeout of 20000 and an interval of 5000 it has issued at most 4 polls; it
   returns one poll interval after its last poll returned, that poll having
   started before the timeout: later than timeout + interval by less than
   the duration of the last poll, and within timeout + interval when the
   polls take no time. *)
C7_TimesOutAfterLastPoll ==
    (scr_pc = "returned" /\ ~screeningComplete)
        => /\ screeningResult.overall_severity = "ERROR"
           /\ (timeoutMs = 20000 /\ pollIntervalMs = 5000) => polls <= 4
           /\ elapsed = pollStart + pollLatency + pollIntervalMs
           /\ pollStart < timeoutMs
           /\ elapsed - pollLatency < timeoutMs + pollIntervalMs
           /\ elapsed = pending * pollIntervalMs => elapsed <= timeoutMs + pollIntervalMs

C7_Witness ==
    /\ scr_pc = "returned" /\ ~screeningComplete
    /\ timeoutMs = 20000 /\ pollIntervalMs = 5000
    /\ polls = 4 /\ pending = 4
    /\ elapsed = 20000
    /\ screeningResult.overall_severity = "ERROR"

(* C8, as the claim states it: one submission, and at most
   floor(timeout / interval) polls. *)
C8_PollsAtMostFloor ==
    /\ submits <= 1
    /\ scr_pc # "idle" => submits = 1
    /\ polls <= timeoutMs \div pollIntervalMs

(* C8, amended: exactly one submission call, and between 0 and
   ceil(timeout / interval) poll calls (which is floor(timeout / interval)
   when the timeout is a multiple of the interval). *)
C8_PollsAtMostCeil ==
    /\ submits <= 1
    /\ scr_pc # "idle" => submits = 1
    /\ polls <= Ceil(timeoutMs, pollIntervalMs)
    /\ timeoutMs % pollIntervalMs = 0 => polls <= timeoutMs \div pollIntervalMs

C8_Witness ==
    /\ scr_pc = "returned"
    /\ timeoutMs = 22500 /\ pollIntervalMs = 5000
    /\ submits = 1
    /\ polls = 5

(* C9: every poll is issued at an elapsed time below the timeout, and a
   screening that returns without a verdict returns ERROR at the first test
   of the loop at which the elapsed time has reached the timeout. *)
C9_NoPollAtOrAfterTimeout ==
    /\ polls > 0 => pollStart < timeoutMs
    /\ scr_pc = "polling" => elapsed = pollStart
    /\ (scr_pc = "returned" /\ ~screeningComplete)
         => /\ elapsed >= timeoutMs
            /\ screeningResult.overall_severity = "ERROR"
            /\ elapsed = pollStart + pollLatency + pollIntervalMs

C9_Witness ==
    /\ scr_pc = "returned" /\ ~screeningComplete
    /\ pollStart < timeoutMs /\ pollStart + pollLatency >= timeoutMs
    /\ elapsed > timeoutMs
    /\ polls >= 2

(* C10: a poll response completes the screening and sets the verdict exactly
   when objects[0] has a screening_status other than PENDING and
   report_generation_complete true; any other response leaves
   screeningComplete and the verdict as they were and is followed by the
   loop's sleep. *)
C10_TerminalExactly ==
    [][(scr_pc = "polling" /\ scr_pc' # "thrown")
         => IF /\ lastResponse'.objects = "one"
               /\ lastResponse'.screening_status # "PENDING"
               /\ lastResponse'.report_generation_complete
            THEN /\ scr_pc' = "returned"
                 /\ screeningComplete'
                 /\ screeningResult'.overall_severity = lastResponse'.overall_severity
            ELSE /\ scr_pc' = "sleeping"
                 /\ ~screeningComplete'
                 /\ screeningResult' = screeningResult
                 /\ screeningResult'.overall_severity = "ERROR"]_vars

C10_Witness ==
    /\ scr_pc = "sleeping"
    /\ lastResponse.objects = "one"
    /\ lastResponse.screening_status = "COMPLETE"
    /\ ~lastResponse.report_generation_complete
    /\ lastResponse.overall_severity = "HIGH"
    /\ ~screeningComplete
    /\ screeningResult.overall_severity = "ERROR"

C10_WitnessPendingReported ==
    /\ scr_pc = "sleeping"
    /\ lastResponse.objects = "one"
    /\ lastResponse.screening_status = "PENDING"
    /\ lastResponse.report_generation_complete
    /\ ~screeningComplete

(***************************************************************************)
(* Further properties of the screener.                                     *)
(***************************************************************************)

(* C11: when the submission call fails, handleAutoScreening throws at once:
   no poll is issued, no sleep is performed and no time passes. *)
C11_SubmitFailurePropagates ==
    (submits = 1 /\ pteResponse = "none")
        => /\ scr_pc = "thrown"
           /\ polls = 0
           /\ sleeps = <<>>
           /\ now = 0

C11_Witness ==
    /\ scr_pc = "thrown"
    /\ submits = 1 /\ pteResponse = "none"
    /\ polls = 0 /\ sleeps = <<>>

(* C20: a poll that follows another is issued at least pollIntervalMs after
   the previous poll returned. *)
C20_PollsSpacedByInterval ==
    [][(polls >= 1 /\ polls' = polls + 1)
         => pollStart' >= pollStart + pollLatency + pollIntervalMs]_vars

C20_Witness ==
    /\ scr_pc = "polling" /\ polls = 3
    /\ pollLatency = 2500
    /\ pollStart = 2 * pollIntervalMs + 5000

(***************************************************************************)
(* Further properties of the aggregation.                                  *)
(***************************************************************************)

(* C13: when get_all was not requested, or total_count or limit is missing
   from the first page's meta, the handler returns the first page with the
   status annotation in meta and issues no additional fetch, whatever
   total_count is relative to the ceiling. *)
C13_UnpaginatedPassThrough ==
    (FirstPageReceived /\ (~getAll \/ totalCount = 0 \/ limit = 0))
        => /\ agg_pc = "done"
           /\ response = PageResponse(200, Annotate(initialPage, 200))
           /\ response.body.events = initialPage.events
           /\ fetched = <<>>

C13_Witness ==
    /\ agg_pc = "done" /\ ~getAll
    /\ totalCount > MAX_RECORDS_LIMIT /\ totalCount > limit /\ limit > 0
    /\ response.kind = "page" /\ response.statusCode = 200
    /\ fetched = <<>>

(* C16, as the claim states it: when no fetch fails, the aggregation succeeds
   whichever of the pages' arrays are absent or empty, the first page's
   included. *)
C16_AbsentArraysNeverFail ==
    (agg_pc = "done" /\ fetched # <<>> /\ response.kind # "fetch_error")
        => /\ response.kind = "page"
           /\ Len(served) = remainingRequests

(* C17: the meta of a successful response is the first page's meta with the
   status annotation: total_count, limit and offset are the upstream's values
   (offset the one of the client's query), not recomputed from the merged array. *)
C17_MetaPassedThrough ==
    (agg_pc = "done" /\ response.kind = "page")
        => /\ response.body.meta = [initialPage.meta EXCEPT !.status_code = 200]
           /\ response.body.meta.total_count = totalCount
           /\ response.body.meta.limit = limit
           /\ response.body.meta.offset = queryOffset
           /\ response.statusCode = 200

C17_Witness ==
    /\ agg_pc = "done" /\ response.kind = "page"
    /\ queryOffset = 2
    /\ Len(served) = 2
    /\ totalCount = 3 /\ limit = 1
    /\ Len(response.body.events.items) = 5
    /\ response.body.meta.total_count = 3

(* C18: a failed upstream call, the first one or an additional fetch, is answered
   with the upstream's status when the failure carries a response and with 500
   when it carries none; an exception of the loop that is not an upstream
   failure is answered with 500; no other response reports a failure. *)
C18_UpstreamStatusOrDefault ==
    /\ (upstreamError # -1)
          => /\ agg_pc = "done"
             /\ response.kind = IF fetched = <<>> THEN "upstream_error" ELSE "fetch_error"
             /\ response.statusCode = IF upstreamError = 0 THEN 500 ELSE upstreamError
    /\ (agg_pc = "done" /\ response.kind \in {"upstream_error", "fetch_error"})
          => upstreamError # -1
    /\ (agg_pc = "done" /\ response.kind = "internal_error")
          => response.statusCode = 500

C18_Witness ==
    /\ agg_pc = "done"
    /\ upstreamError = 503
    /\ response.kind = "fetch_error" /\ response.statusCode = 503
    /\ Len(served) = 1

C18_WitnessNoResponse ==
    /\ agg_pc = "done"
    /\ upstreamError = 0
    /\ response.kind = "upstream_error" /\ response.statusCode = 500

(* C19: at most one additional fetch is outstanding at any time; while the loop
   awaits, the fetch outstanding is the one of the loop index i and every
   earlier fetch has returned and its items are in the merged array. *)
C19_SerialFetches ==
    /\ Len(fetched) <= Len(served) + 1
    /\ (agg_pc = "loop")
          => /\ Len(fetched) = Len(served) + 1
             /\ i = Len(fetched)
             /\ fetched[i] = OffsetOf(i, limit)
             /\ responseData.events.items = initialPage.events.items \o Concat(served)
    /\ (agg_pc = "done" /\ response.kind = "page") => Len(fetched) = Len(served)

C19_Witness ==
    /\ agg_pc = "loop"
    /\ Len(served) = 2 /\ Len(fetched) = 3
    /\ served[1].items # <<>> /\ served[2].items # <<>>
    /\ Len(responseData.events.items) >= 3

(* C14: a second request with the same query against the same page source is
   answered exactly as the first one was: same status, same meta, same merged
   array. *)
C14_SecondRunIdentical ==
    (run = 2 /\ agg_pc = "done") => response = firstResponse

C14_Witness ==
    /\ run = 2 /\ agg_pc = "done"
    /\ response.kind = "page"
    /\ Len(served) = 2
    /\ Len(response.body.events.items) >= 3
    /\ firstResponse.kind = "page"

(* C15, as the claim states it: every additional fetch is at an offset greater
   than the first page's own offset and than every offset fetched before it. *)
C15_AscendingFromFirstOffset ==
    \A k \in 1..Len(fetched) :
        /\ fetched[k] > initialPage.meta.offset
        /\ \A j \in 1..(k - 1) : fetched[k] > fetched[j]

(* C12, as the claim states it: a notification that requests auto screening is
   written exactly once and answered 201, without auto_screening when the
   screening threw and with the screener's result when it returned. *)
C12_StoredAnd201 ==
    (hook_pc = "done" /\ wantsScreening /\ imoPresent)
        => /\ Len(puts) = 1
           /\ stored = puts
           /\ hookResponse = 201
           /\ (scr_pc = "thrown") => ~stored[1].present
           /\ (scr_pc = "returned") => stored[1] = AutoScreening(screeningResult)

(* C12, amended: a notification that requests auto screening is handed to the
   table exactly once, after the screening ended: without auto_screening when
   the screening threw (submission or a poll), with the screener's result when
   it returned (the verdict of the last poll, ERROR on timeout); the answer is
   201 and the item is in the table when that write succeeds, 500 and nothing
   in the table when it fails. *)
C12_PutOnceAfterScreening ==
    /\ (hook_pc = "screening") => (puts = <<>> /\ hookResponse = 0)
    /\ (hook_pc \in {"storing", "done"} /\ wantsScreening /\ imoPresent)
          => /\ Len(puts) = 1
             /\ scr_pc \in {"thrown", "returned"}
             /\ (scr_pc = "thrown") => ~puts[1].present
             /\ (scr_pc = "returned")
                   => /\ puts[1] = AutoScreening(screeningResult)
                      /\ puts[1].transaction_id = pteResponse
                      /\ puts[1].overall_severity =
                            IF screeningComplete THEN lastResponse.overall_severity
                            ELSE "ERROR"
             /\ (hook_pc = "done")
                   => \/ hookResponse = 201 /\ stored = puts
                      \/ hookResponse = 500 /\ stored = <<>>

C12_Witness ==
    /\ hook_pc = "done" /\ wantsScreening /\ imoPresent
    /\ scr_pc = "thrown" /\ polls = 2
    /\ hookResponse = 201
    /\ Len(stored) = 1 /\ ~stored[1].present

C12_WitnessTimeout ==
    /\ hook_pc = "done" /\ wantsScreening /\ imoPresent
    /\ scr_pc = "returned" /\ ~screeningComplete
    /\ hookResponse = 201
    /\ Len(stored) = 1 /\ stored[1].present /\ stored[1].overall_severity = "ERROR"

(* C21: the screener moves from the submission to the initial sleep, from
   there to polling, and from polling to its return (complete or timed out);
   the first poll is issued at the end of the full initial delay that follows
   a successful submission, with the timeout clock started at that moment; a
   screening that returned has performed no sleep after its terminal poll and
   no poll after the test that timed it out. *)
C21_SubmittedPollingTerminal ==
    [][/\ (scr_pc' # scr_pc)
             => <<scr_pc, scr_pc'>> \in
                   {<<"idle", "initialSleep">>, <<"idle", "thrown">>,
                    <<"initialSleep", "polling">>,
                    <<"polling", "sleeping">>, <<"polling", "returned">>,
                    <<"polling", "thrown">>,
                    <<"sleeping", "polling">>, <<"sleeping", "returned">>}
       /\ (polls = 0 /\ polls' = 1)
             => /\ scr_pc = "initialSleep"
                /\ submits = 1 /\ pteResponse \in TransactionIds
                /\ now' = now + InitialDelayMs
                /\ sleeps' = <<Slept("initial", InitialDelayMs)>>
                /\ startTime' = now'
                /\ pollStart' = 0
       /\ (scr_pc' = "returned")
             => IF screeningComplete'
                THEN scr_pc = "polling" /\ Len(sleeps') = polls'
                     /\ now' - startTime' = pollStart' + pollLatency'
                ELSE scr_pc = "sleeping" /\ Len(sleeps') = polls' + 1
                     /\ polls' = polls
       /\ (scr_pc \in {"returned", "thrown"})
             => (polls' = polls /\ sleeps' = sleeps /\ scr_pc' = scr_pc)]_vars

C21_Witness ==
    /\ scr_pc = "polling" /\ polls = 1
    /\ submits = 1 /\ pteResponse = "tx2"
    /\ now = InitialDelayMs /\ startTime = InitialDelayMs
    /\ sleeps = <<Slept("initial", InitialDelayMs)>>

(* the poll calls that returned a response: the pending ones and the terminal one *)
pollsAnswered == pending + (IF screeningComplete THEN 1 ELSE 0)

(* C22: a failed poll call ends the screening by an exception: every poll that
   the screener went on from had returned a response, and after a failed poll
   there is no verdict, no sleep and no further poll. *)
C22_PollFailurePropagates ==
    /\ (scr_pc \in {"sleeping", "returned"}) => polls = pollsAnswered
    /\ (scr_pc = "polling") => polls = pollsAnswered + 1
    /\ (scr_pc = "thrown" /\ polls >= 1)
          => /\ polls = pollsAnswered + 1
             /\ ~screeningComplete
             /\ screeningResult.overall_severity = "ERROR"
             /\ Len(sleeps) = polls
             /\ now - startTime = pollStart + pollLatency

C22_Witness ==
    /\ scr_pc = "thrown"
    /\ polls = 3 /\ pending = 2
    /\ pollLatency = 2500
    /\ Len(sleeps) = 3

(* C26: when every call the screener awaits comes back, the screener ends,
   returning a result or raising, and it has then gone through the loop no
   more than ceil(timeoutMs / pollIntervalMs) times. *)
C26_ScreenerTerminates ==
    <>(/\ scr_pc \in {"returned", "thrown"}
       /\ polls <= Ceil(timeoutMs, pollIntervalMs)
       /\ Len(sleeps) <= 1 + Ceil(timeoutMs, pollIntervalMs))

C26_Witness ==
    /\ scr_pc = "returned" /\ ~screeningComplete
    /\ timeoutMs = 20000 /\ pollIntervalMs = 7500
    /\ polls = Ceil(timeoutMs, pollIntervalMs)
    /\ Len(sleeps) = 1 + polls

(* C27: the result carries the transaction id of the submission and the default
   ERROR until a terminal poll is seen; a severity other than ERROR is the one
   carried by the last poll response, which was terminal, and is held only by
   a screening that returned. *)
C27_VerdictNeverFabricated ==
    /\ (scr_pc \in {"polling", "sleeping", "returned"} \/ (scr_pc = "thrown" /\ polls >= 1))
          => screeningResult.transaction_id = pteResponse
    /\ (scr_pc = "returned") => pteResponse \in TransactionIds
    /\ ~screeningComplete
          => screeningResult.overall_severity \in {"none", "ERROR"}
    /\ (scr_pc \in {"polling", "sleeping"}) => screeningResult.overall_severity = "ERROR"
    /\ screeningResult.overall_severity \notin {"none", "ERROR"}
          => /\ scr_pc = "returned"
             /\ screeningComplete
             /\ lastResponse.objects = "one"
             /\ lastResponse.screening_status # "PENDING"
             /\ lastResponse.report_generation_complete
             /\ screeningResult.overall_severity = lastResponse.overall_severity
             /\ polls = pending + 1

C27_Witness ==
    /\ scr_pc = "returned" /\ screeningComplete
    /\ screeningResult = [transaction_id |-> "tx2", overall_severity |-> "HIGH"]
    /\ lastResponse.overall_severity = "HIGH"
    /\ polls = 2 /\ pending = 1

(* C28: a poll response whose objects list is missing or empty does not end the
   screening and leaves the result as it was; the loop sleeps one interval and
   then polls again or, the timeout reached, returns ERROR. *)
C28_NoObjectsIsPending ==
    [][/\ (scr_pc = "polling" /\ scr_pc' # "thrown"
             /\ lastResponse'.objects \in {"missing", "empty"})
             => /\ scr_pc' = "sleeping"
                /\ ~screeningComplete'
                /\ screeningResult' = screeningResult
                /\ pending' = pending + 1
                /\ polls' = polls /\ sleeps' = sleeps
       /\ (scr_pc = "sleeping" /\ lastResponse.objects \in {"missing", "empty"})
             => /\ now' = now + pollIntervalMs
                /\ sleeps' = Append(sleeps, Slept("interval", pollIntervalMs))
                /\ screeningResult' = screeningResult
                /\ IF now' - startTime < timeoutMs
                   THEN scr_pc' = "polling" /\ polls' = polls + 1
                   ELSE /\ scr_pc' = "returned" /\ polls' = polls
                        /\ screeningResult'.overall_severity = "ERROR"]_vars

C28_Witness ==
    /\ scr_pc = "polling"
    /\ lastResponse.objects = "empty"
    /\ polls = 3 /\ pending = 2
    /\ ~screeningComplete
    /\ screeningResult.overall_severity = "ERROR"

C28_WitnessMissingTimesOut ==
    /\ scr_pc = "returned" /\ ~screeningComplete
    /\ lastResponse.objects = "missing"
    /\ screeningResult.overall_severity = "ERROR"

(* the additional fetches a request may issue under the ceiling *)
FetchBudget ==
    IF limit = 0 THEN 0 ELSE Ceil(MAX_RECORDS_LIMIT, limit) - 1

(* C25: a request issues at most ceil(MAX_RECORDS_LIMIT / limit) - 1 additional
   fetches, hence fewer than MAX_RECORDS_LIMIT, and every step of the loop
   either ends the request or advances the loop index towards
   remainingRequests, which is set once. *)
C25_BoundedFetches ==
    [][/\ Len(fetched') <= FetchBudget'
       /\ Len(fetched') <= MAX_RECORDS_LIMIT - 1
       /\ remainingRequests' <= FetchBudget'
       /\ (agg_pc = "loop")
             => /\ remainingRequests' = remainingRequests
                /\ \/ agg_pc' = "done"
                   \/ /\ agg_pc' = "loop"
                      /\ i' = i + 1
                      /\ i' <= remainingRequests
                      /\ Len(fetched') = i']_vars

C25_Witness ==
    /\ agg_pc = "done" /\ response.kind = "page"
    /\ MAX_RECORDS_LIMIT = 4 /\ limit = 1
    /\ Len(fetched) = 3
    /\ Len(fetched) = FetchBudget

(* C29: handling one notification submits at most one screening job, and only
   for a custom_reference containing 'AUTO_SCREENING' with an IMO number in
   the event; otherwise no submission and no poll is made and the item handed
   to the table carries no auto_screening. *)
C29_SubmitOnlyWhenRequested ==
    /\ submits <= 1
    /\ (submits = 1) => (wantsScreening /\ imoPresent /\ hook_pc # "received")
    /\ (hook_pc \in {"storing", "done"} /\ wantsScreening /\ imoPresent) => submits = 1
    /\ ~(wantsScreening /\ imoPresent)
          => /\ submits = 0 /\ polls = 0 /\ sleeps = <<>>
             /\ scr_pc = "idle"
             /\ autoScreening = NoAutoScreening
             /\ (hook_pc \in {"storing", "done"}) => puts = <<NoAutoScreening>>
             /\ (hook_pc = "done" /\ hookResponse = 201) => stored = <<NoAutoScreening>>

C29_Witness ==
    /\ hook_pc = "done" /\ hookResponse = 201
    /\ wantsScreening /\ ~imoPresent
    /\ submits = 0 /\ polls = 0
    /\ stored = <<NoAutoScreening>>

C29_WitnessSubmittedOnce ==
    /\ hook_pc = "done" /\ wantsScreening /\ imoPresent
    /\ submits = 1 /\ polls = 2 /\ screeningComplete
    /\ Len(stored) = 1 /\ stored[1].present

(* what an invocation returns when it runs alone: its first page, annotated,
   with the arrays of the pages it was served appended in order *)
AloneBody(inv) ==
    [Annotate(inv.initialPage, 200) EXCEPT
        !.events = IF inv.served = <<>>
                   THEN inv.initialPage.events
                   ELSE Arr(inv.initialPage.events.items \o Concat(inv.served))]

(* every item of the sequence its is an item of request r *)
OnlyItemsOf(r, its) == \A k \in 1..Len(its) : its[k] = ItemOf(r)

UnmixedInvocation(r, inv) ==
    /\ (inv.agg_pc = "loop")
          => /\ inv.responseData = AloneBody(inv)
             /\ OnlyItemsOf(r, inv.responseData.events.items)
    /\ (inv.agg_pc = "done" /\ inv.response.kind = "page")
          => /\ inv.response.body = AloneBody(inv)
             /\ OnlyItemsOf(r, inv.response.body.events.items)
             /\ \/ ~inv.getAll
                \/ inv.initialPage.meta.total_count <= 1
                \/ Len(inv.served) = inv.initialPage.meta.total_count - 1

(* C23: of two aggregating requests interleaved in any way, each holds and
   returns what it would alone, its first page followed by the pages served to
   it, and no item of the other request. *)
C23_InvocationsShareNothing ==
    /\ UnmixedInvocation(active, Running)
    /\ UnmixedInvocation(3 - active, suspended)

C23_Witness ==
    /\ agg_pc = "done" /\ response.kind = "page"
    /\ suspended.agg_pc = "done" /\ suspended.response.kind = "page"
    /\ Len(served) = 2 /\ Len(suspended.served) = 2
    /\ Len(response.body.events.items) >= 3
    /\ Len(suspended.response.body.events.items) >= 3

(* C24, as the claim states it: in one process the CSV object is loaded once,
   the cache, once populated, is never null again, no load is started while it
   is populated, and a load that fails leaves it unpopulated. *)
C24_LoadedOnce ==
    /\ loadsSucceeded <= 1
    /\ everPopulated => recordsCache # "null"
    /\ startedWhilePopulated = 0
    /\ (recordsCache # "null") => loadsSucceeded >= 1

(* C30: a GET request to an endpoint that requires authentication and whose
   headers carry no token is answered 401 by the main handler, and no upstream
   call, first or additional, is ever issued for it; an endpoint handler runs
   only with a non-empty token. *)
LacksToken ==
    \A h \in {requestHeaders.Authorization, requestHeaders.authorization,
               requestHeaders.accessToken} :
        ~Truthy(h) \/ h.text = BearerPrefix

AuthEndpoint ==
    /\ httpMethod = "GET"
    /\ \/ handlerKind = "voyage" /\ route \in VoyageRoutes
       \/ handlerKind = "zone" /\ route \in {"traffic", "vessels", "list"}

C30_NoTokenNoUpstreamCall ==
    /\ (LacksToken /\ AuthEndpoint)
          => /\ gate_pc \in {"received", "done"}
             /\ (gate_pc = "done") => gateResponse = 401
             /\ agg_pc = "start" /\ fetched = <<>> /\ response = NoResponse
    /\ (gate_pc = "handling")
          => /\ accessToken.present /\ accessToken.text = TokenText
             /\ gateResponse = 0
    /\ (agg_pc # "start") => gate_pc = "handling"

C30_Witness ==
    /\ gate_pc = "done" /\ gateResponse = 401
    /\ handlerKind = "zone" /\ route = "traffic" /\ httpMethod = "GET"
    /\ requestHeaders.Authorization = Header(BearerPrefix)
    /\ requestHeaders.accessToken = Header(BearerPrefix)
    /\ getAll /\ idPresent

C30_WitnessVoyage ==
    /\ gate_pc = "done" /\ gateResponse = 401
    /\ handlerKind = "voyage" /\ route = "voyage" /\ httpMethod = "GET"
    /\ requestHeaders.Authorization = Header(<<>>)
    /\ ~requestHeaders.authorization.present /\ ~requestHeaders.accessToken.present

(***************************************************************************)
(* Specifications.                                                         *)
(***************************************************************************)

ScrIdle ==
    /\ scr_pc = "idle"
    /\ pteResponse = "none"
    /\ now = 0
    /\ startTime = 0
    /\ screeningComplete = FALSE
    /\ screeningResult = [transaction_id |-> "none", overall_severity |-> "none"]
    /\ submits = 0
    /\ polls = 0
    /\ pollStart = 0
    /\ pollLatency = 0
    /\ lastResponse = NoPollResponse
    /\ pending = 0
    /\ sleeps = <<>>

AggIdle ==
    /\ agg_pc = "start"
    /\ initialPage = NoPage
    /\ responseData = NoPage
    /\ remainingRequests = 0
    /\ i = 0
    /\ fetched = <<>>
    /\ served = <<>>
    /\ response = NoResponse
    /\ upstreamError = -1
    /\ run = 1
    /\ source = <<>>
    /\ firstResponse = NoResponse

HookIdle ==
    /\ hook_pc = "received"
    /\ autoScreening = NoAutoScreening
    /\ puts = <<>>
    /\ stored = <<>>
    /\ hookResponse = 0

NoHook == HookIdle /\ wantsScreening = FALSE /\ imoPresent = FALSE

NoGate ==
    /\ gate_pc = "received"
    /\ handlerKind = "zone"
    /\ httpMethod = "GET"
    /\ route = "traffic"
    /\ requestHeaders =
          [Authorization |-> Header(TokenText), authorization |-> NoHeader,
           accessToken |-> NoHeader]
    /\ idPresent = TRUE
    /\ accessToken = NoHeader
    /\ gateResponse = 0

NoConc ==
    /\ active = 1
    /\ suspended = NewInvocation(FALSE)

CacheIdle ==
    /\ recordsCache = "null"
    /\ caller_pc = [c \in Callers |-> "idle"]
    /\ callsLeft = [c \in Callers |-> MaxCalls]
    /\ lastResult = [c \in Callers |-> "none"]
    /\ loadsStarted = 0
    /\ loadsSucceeded = 0
    /\ startedWhilePopulated = 0
    /\ everPopulated = FALSE

InitAgg ==
    /\ NoGate /\ NoConc /\ CacheIdle
    /\ NoHook
    /\ AggIdle
    /\ MAX_RECORDS_LIMIT \in 1..MaxCeiling
    /\ getAll \in BOOLEAN
    /\ queryOffset = 0
    /\ ScrIdle
    /\ timeoutMs = PTE_TIMEOUT
    /\ pollIntervalMs = PollIntervalMs

NextAgg ==
    \/ \E tc \in TotalCounts, lim \in 0..MaxLimit, arr \in PageArrays :
          InitialCallReturns(tc, lim, arr) /\ UNCHANGED twiceVars
    \/ \E st \in ErrorStatuses : InitialCallFails(st) /\ UNCHANGED twiceVars
    \/ \E arr \in PageArrays : AdditionalCallReturns(arr) /\ UNCHANGED twiceVars
    \/ \E st \in ErrorStatuses : AdditionalCallFails(st) /\ UNCHANGED twiceVars

SpecAgg == InitAgg /\ [][NextAgg]_vars

(* Two requests; the ceiling admits aggregations of up to MaxLimit records. *)
InitTwice ==
    /\ NoGate /\ NoConc /\ CacheIdle
    /\ NoHook
    /\ AggIdle
    /\ MAX_RECORDS_LIMIT = MaxLimit
    /\ getAll \in BOOLEAN
    /\ queryOffset \in 0..MaxQueryOffset
    /\ ScrIdle
    /\ timeoutMs = PTE_TIMEOUT
    /\ pollIntervalMs = PollIntervalMs

NextTwice ==
    \/ \E out \in FirstCallAnswers :
          out.ok /\ SourceInitialCallReturns(out.tc, out.lim, out.arr)
    \/ \E out \in FirstCallAnswers :
          ~out.ok /\ SourceInitialCallFails(out.st)
    \/ \E arr \in PageArrays : SourceAdditionalCallReturns(arr)
    \/ \E st \in ErrorStatuses : SourceAdditionalCallFails(st)
    \/ StartSecondRun

SpecTwice == InitTwice /\ [][NextTwice]_vars

InitScr ==
    /\ NoGate /\ NoConc /\ CacheIdle
    /\ NoHook
    /\ ScrIdle
    /\ \E c \in Configs : timeoutMs = c[1] /\ pollIntervalMs = c[2]
    /\ AggIdle
    /\ MAX_RECORDS_LIMIT = MaxCeiling
    /\ getAll = FALSE
    /\ queryOffset = 0

NextScr ==
    \/ \E tid \in TransactionIds : SubmitReturns(tid)
    \/ SubmitFails
    \/ InitialSleepEnds
    \/ \E r \in PollResponses, lat \in Latencies : PollReturns(r, lat)
    \/ \E lat \in Latencies : PollFails(lat)
    \/ SleepEnds

SpecScr == InitScr /\ [][NextScr]_vars

(* Every call the screener awaits settles and every timer fires. *)
SpecScrFair == SpecScr /\ WF_vars(NextScr)

(* One request to either main handler; the upstream answers with small pages. *)
GateTotalCounts == 0..MaxPageLen
GatePages == {Absent, Arr(<<"a">>)}

InitGate ==
    /\ gate_pc = "received"
    /\ handlerKind \in {"zone", "voyage"}
    /\ httpMethod \in {"GET", "POST", "OPTIONS"}
    /\ route \in (IF handlerKind = "zone" THEN ZoneRoutes ELSE VoyageRoutes) \cup {"unknown"}
    /\ requestHeaders \in
          [Authorization : {NoHeader, Header(<<>>), Header(BearerPrefix),
                            Header(BearerPrefix \o TokenText), Header(TokenText)},
           authorization : {NoHeader, Header(BearerPrefix), Header(TokenText)},
           accessToken : {NoHeader, Header(BearerPrefix), Header(TokenText)}]
    /\ idPresent \in BOOLEAN
    /\ accessToken = NoHeader
    /\ gateResponse = 0
    /\ AggIdle
    /\ MAX_RECORDS_LIMIT = MaxLimit
    /\ getAll \in (IF route = "list" THEN {FALSE} ELSE BOOLEAN)
    /\ queryOffset = 0
    /\ NoHook /\ NoConc /\ CacheIdle
    /\ ScrIdle
    /\ timeoutMs = PTE_TIMEOUT
    /\ pollIntervalMs = PollIntervalMs

NextGate ==
    \/ Dispatch
    \/ \E tc \in GateTotalCounts, lim \in 0..1, arr \in GatePages :
          gate_pc = "handling" /\ InitialCallReturns(tc, lim, arr) /\ UNCHANGED twiceVars
    \/ \E st \in ErrorStatuses :
          gate_pc = "handling" /\ InitialCallFails(st) /\ UNCHANGED twiceVars
    \/ \E arr \in GatePages :
          gate_pc = "handling" /\ AdditionalCallReturns(arr) /\ UNCHANGED twiceVars
    \/ \E st \in ErrorStatuses :
          gate_pc = "handling" /\ AdditionalCallFails(st) /\ UNCHANGED twiceVars

SpecGate == InitGate /\ [][NextGate]_vars

(* Two aggregating requests in one process, each with a query of its own. *)
InitConc ==
    /\ AggIdle
    /\ MAX_RECORDS_LIMIT = MaxLimit
    /\ getAll \in BOOLEAN
    /\ queryOffset = 0
    /\ active = 1
    /\ \E ga \in BOOLEAN : suspended = NewInvocation(ga)
    /\ NoHook /\ NoGate /\ CacheIdle
    /\ ScrIdle
    /\ timeoutMs = PTE_TIMEOUT
    /\ pollIntervalMs = PollIntervalMs

NextConc ==
    \/ \E tc \in 0..MaxLimit, arr \in PagesOf(active) :
          InitialCallReturns(tc, 1, arr) /\ UNCHANGED twiceVars
    \/ \E st \in ErrorStatuses : InitialCallFails(st) /\ UNCHANGED twiceVars
    \/ \E arr \in PagesOf(active) : AdditionalCallReturns(arr) /\ UNCHANGED twiceVars
    \/ \E st \in ErrorStatuses : AdditionalCallFails(st) /\ UNCHANGED twiceVars
    \/ Switch

SpecConc == InitConc /\ [][NextConc]_vars

(* The callers of one process, their calls overlapping in any way. *)
InitCache ==
    /\ CacheIdle
    /\ AggIdle
    /\ MAX_RECORDS_LIMIT = MaxCeiling
    /\ getAll = FALSE
    /\ queryOffset = 0
    /\ NoHook /\ NoGate /\ NoConc
    /\ ScrIdle
    /\ timeoutMs = PTE_TIMEOUT
    /\ pollIntervalMs = PollIntervalMs

NextCache ==
    \/ \E c \in Callers, kind \in {"getRecordById", "search"} : CallStarts(c, kind)
    \/ \E c \in Callers : LoadSucceeds(c)
    \/ \E c \in Callers : LoadFails(c)

SpecCache == InitCache /\ [][NextCache]_vars

(* One notification: any custom_reference, with or without an IMO number. *)
InitHook ==
    /\ NoGate /\ NoConc /\ CacheIdle
    /\ HookIdle
    /\ wantsScreening \in BOOLEAN
    /\ imoPresent \in BOOLEAN
    /\ ScrIdle
    /\ timeoutMs = PTE_TIMEOUT
    /\ pollIntervalMs = PollIntervalMs
    /\ AggIdle
    /\ MAX_RECORDS_LIMIT = MaxCeiling
    /\ getAll = FALSE
    /\ queryOffset = 0

NextHook ==
    \/ StoreReceives
    \/ \E tid \in TransactionIds : hook_pc = "screening" /\ SubmitReturns(tid)
    \/ hook_pc = "screening" /\ SubmitFails
    \/ hook_pc = "screening" /\ InitialSleepEnds
    \/ \E r \in PollResponses, lat \in Latencies :
          hook_pc = "screening" /\ PollReturns(r, lat)
    \/ \E lat \in Latencies : hook_pc = "screening" /\ PollFails(lat)
    \/ hook_pc = "screening" /\ SleepEnds
    \/ ScreeningReturns
    \/ ScreeningThrows
    \/ PutSucceeds
    \/ PutFails

SpecHook == InitHook /\ [][NextHook]_vars

====
